---- MODULE Spec2Model ----
(***************************************************************************)
(* A model of the zenoh protocol core value types (ResKey, Encoding,      *)
(* PeerId, CongestionControl: src/zenoh/src/net/protocol/core/mod.rs) and *)
(* of the AckNack transport message                                       *)
(* (src/zenoh/src/net/protocol/message/transport/acknack.rs), and of the  *)
(* pull subscriber of src/zenoh/examples/zenoh-net/zn_pull.rs facing a     *)
(* publisher that buffers for it.                                          *)
(*                                                                         *)
(* Strings are sequences of one-character strings, bytes are naturals in  *)
(* 0..255.  Each family of operations has its own specification; the      *)
(* variables of the other families stay at their initial value.           *)
(***************************************************************************)
EXTENDS Integers, Sequences, FiniteSets, TLC

VARIABLES
    \* ---- ResKey conversions
    rk_pc,      \* which conversion ran last ("start" before any)
    tuple,      \* the (rid, suffix) argument of the conversion
    reskey,     \* the ResKey the conversion produced
    srckey,     \* the ResKey a round trip started from
    \* ---- AckNack read / write
    an_pc,      \* "start", "read", "new", "written"
    zbuf,       \* the bytes of the read buffer (header already consumed)
    rpos,       \* number of bytes of zbuf consumed so far
    header,     \* the header byte handed to AckNack::read
    msg,        \* Option<AckNack>: the message read or built
    origin,     \* where msg comes from: "none", "read", "new"
    wbuf,       \* the bytes of the write buffer
    wcap,       \* how many bytes the write buffer can accept in all
    wres,       \* what the last AckNack::write returned: "none", "true", "false"
    \* ---- Encoding
    e_pc,       \* "start", "new", "from_str", "from_string", "shown",
                \* "shown_parsed", "mime", "reparsed"
    ein,        \* the string handed to Encoding::from
    enc,        \* the Encoding value
    eout,       \* the string produced by Display
    emime,      \* what to_mime returned
    reenc,      \* the Encoding parsed back from eout
    \* ---- CongestionControl
    cc_pc,      \* "start", "parsed"
    cc_s,       \* the string handed to from_str
    cc_res,     \* the Result<CongestionControl, ZError>
    \* ---- PeerId
    p_pc,       \* "start", "compared"
    pidA,       \* a PeerId (or NoPeerId)
    pidB,       \* a PeerId (or NoPeerId)
    eqres,      \* outcome of pidA == pidB: "none", "true", "false", "panic"
    \* ---- Pull subscription
    pl_pc,      \* the subscriber program: "start", "declared", "closed"
    sub_info,   \* the SubInfo the subscriber was declared with (or NoSub)
    published,  \* the samples the publisher emitted, in emission order
    pbuf,       \* the samples the publisher holds back for the subscriber
    wire,       \* the samples on their way to the subscriber, oldest first
    received,   \* the samples sub.next() yielded, in that order
    pull_sn,    \* the sequence number of the subscriber's latest pull
    pullq,      \* the pull requests on their way to the publisher
    last_sn,    \* the highest pull sequence number the publisher served
    due         \* history: how many samples were emitted before the latest pull

rkVars == <<rk_pc, tuple, reskey, srckey>>
anVars == <<an_pc, zbuf, rpos, header, msg, origin, wbuf, wcap, wres>>
encVars == <<e_pc, ein, enc, eout, emime, reenc>>
ccVars == <<cc_pc, cc_s, cc_res>>
pidVars == <<p_pc, pidA, pidB, eqres>>
plVars == <<pl_pc, sub_info, published, pbuf, wire, received, pull_sn, pullq,
            last_sn, due>>
vars == <<rkVars, anVars, encVars, ccVars, pidVars, plVars>>

(***************************************************************************)
(* Bounds of the model.                                                    *)
(***************************************************************************)
\* ResourceIds are drawn from 0..MaxRid.
MaxRid == 7
\* Suffixes of a ResKey tuple have at most MaxSuffixLen characters.
MaxSuffixLen == 2
\* Read buffers hold at most MaxBufLen bytes.
MaxBufLen == 5
\* Write buffers accept at most MaxCap bytes.
MaxCap == 3
\* Encoding prefixes are drawn from 0..MaxPrefix.
MaxPrefix == 22
\* Free suffixes of an Encoding have at most MaxEncSuffixLen characters.
MaxEncSuffixLen == 1
\* The size argument of PeerId::new is drawn from 0..MaxSizeArg.
MaxSizeArg == 17
\* The publisher emits at most MaxSamples samples.
MaxSamples == 3
\* The subscriber calls pull at most MaxPulls times.
MaxPulls == 2
\* At most MaxPullQueue pull requests are on their way at a time.
MaxPullQueue == 2

\* All sequences over S of length at most n.
SeqUpTo(S, n) == UNION {[1..k -> S] : k \in 0..n}

\* str::starts_with
starts_with(s, v) == Len(v) <= Len(s) /\ SubSeq(s, 1, Len(v)) = v

(***************************************************************************)
(* ResKey  (core/mod.rs)                                                   *)
(***************************************************************************)
NO_RESOURCE_ID == 0

\* The three variants of enum ResKey; derived equality compares the variant
\* and then its fields.
RName(s) == [tag |-> "RName", rid |-> NO_RESOURCE_ID, suffix |-> s]
RId(rid) == [tag |-> "RId", rid |-> rid, suffix |-> <<>>]
RIdWithSuffix(rid, s) == [tag |-> "RIdWithSuffix", rid |-> rid, suffix |-> s]

\* The value of reskey before any conversion ran.
NoKey == [tag |-> "none", rid |-> NO_RESOURCE_ID, suffix |-> <<>>]

\* impl From<ResourceId> for ResKey
FromResourceId(rid) == RId(rid)

\* Faulty variant: the rid == NO_RESOURCE_ID test is dropped.
FromTupleStr_NoNameCase(t) ==
    IF t.suffix = <<>> THEN RId(t.rid) ELSE RIdWithSuffix(t.rid, t.suffix)

\* impl From<(ResourceId, &str)> for ResKey
FromTupleStr(t) ==
    IF t.suffix = <<>> THEN RId(t.rid)
    ELSE IF t.rid = NO_RESOURCE_ID THEN RName(t.suffix)
    ELSE RIdWithSuffix(t.rid, t.suffix)

\* impl From<(ResourceId, String)> for ResKey
FromTupleString(t) ==
    IF t.suffix = <<>> THEN RId(t.rid)
    ELSE IF t.rid = NO_RESOURCE_ID THEN RName(t.suffix)
    ELSE RIdWithSuffix(t.rid, t.suffix)

\* impl From<&ResKey> for (ResourceId, &str)
ToTuple(k) ==
    CASE k.tag = "RId" -> [rid |-> k.rid, suffix |-> <<>>]
      [] k.tag = "RName" -> [rid |-> NO_RESOURCE_ID, suffix |-> k.suffix]
      [] k.tag = "RIdWithSuffix" -> [rid |-> k.rid, suffix |-> k.suffix]

RkChars == {"x", "/"}
RkTuples == [rid : 0..MaxRid, suffix : SeqUpTo(RkChars, MaxSuffixLen)]

\* Every value of enum ResKey over the bounded rids and strings: the variants
\* are public and take any field values.
KeyInputs ==
    {RName(x) : x \in SeqUpTo(RkChars, MaxSuffixLen)}
        \cup {RId(r) : r \in 0..MaxRid}
        \cup {RIdWithSuffix(t.rid, t.suffix) : t \in RkTuples}

RkInit ==
    /\ rk_pc = "start"
    /\ tuple \in RkTuples
    /\ reskey = NoKey
    /\ srckey = NoKey

RkIdle ==
    /\ rk_pc = "start"
    /\ tuple = [rid |-> NO_RESOURCE_ID, suffix |-> <<>>]
    /\ reskey = NoKey
    /\ srckey = NoKey

\* ResKey::from(rid)
ConvertRid ==
    /\ rk_pc = "start"
    /\ reskey' = FromResourceId(tuple.rid)
    /\ rk_pc' = "from_rid"
    /\ UNCHANGED <<tuple, srckey, anVars, encVars, ccVars, pidVars, plVars>>

\* ResKey::from((rid, suffix: &str))
ConvertTupleStr ==
    /\ rk_pc = "start"
    /\ reskey' = FromTupleStr(tuple)
    /\ rk_pc' = "from_tuple_str"
    /\ UNCHANGED <<tuple, srckey, anVars, encVars, ccVars, pidVars, plVars>>

\* ResKey::from((rid, suffix: String))
ConvertTupleString ==
    /\ rk_pc = "start"
    /\ reskey' = FromTupleString(tuple)
    /\ rk_pc' = "from_tuple_string"
    /\ UNCHANGED <<tuple, srckey, anVars, encVars, ccVars, pidVars, plVars>>

\* let (rid, suffix) = (&k).into(), for any ResKey k
ConvertKeyToTuple ==
    /\ rk_pc = "start"
    /\ \E k \in KeyInputs :
          /\ srckey' = k
          /\ tuple' = ToTuple(k)
    /\ rk_pc' = "to_tuple"
    /\ UNCHANGED <<reskey, anVars, encVars, ccVars, pidVars, plVars>>

\* ResKey::from((rid, suffix)) on the tuple taken from srckey
ConvertTupleBack ==
    /\ rk_pc = "to_tuple"
    /\ reskey' = FromTupleStr(tuple)
    /\ rk_pc' = "round_trip"
    /\ UNCHANGED <<tuple, srckey, anVars, encVars, ccVars, pidVars, plVars>>

(***************************************************************************)
(* AckNack  (message/transport/acknack.rs)                                 *)
(***************************************************************************)
ZINT_MAX_BYTES == 10

\* TransportId::AckNack.id(): the message ID, in the low 5 bits of the header.
AckNack_ID == 7
\* AckNack::FLAG_Z
FLAG_Z == 128

\* has_flag(byte, flag), for a one-bit flag.
has_flag(byte, flag) == (byte \div flag) % 2 = 1

\* extensions::has_more(header): the extension header's "more" bit.
has_more(h) == has_flag(h, FLAG_Z)

\* ZBuf::read_zint from position pos of buf: 7 data bits per byte, least
\* significant group first, the high bit of a byte says another byte follows.
\* Fails when the input ends inside the integer or when the continuation bit
\* is still set after ZINT_MAX_BYTES bytes.
RECURSIVE read_zint_from(_, _, _, _, _)
read_zint_from(buf, pos, n, mult, acc) ==
    IF n >= ZINT_MAX_BYTES \/ pos >= Len(buf)
    THEN [ok |-> FALSE, val |-> 0, pos |-> pos]
    ELSE LET b == buf[pos + 1]
             v == acc + (b % 128) * mult
         IN IF b >= 128
            THEN read_zint_from(buf, pos + 1, n + 1, mult * 128, v)
            ELSE [ok |-> TRUE, val |-> v, pos |-> pos + 1]

read_zint(buf, pos) == read_zint_from(buf, pos, 0, 1, 0)

\* ZExt::<ZExtUnknown>::read(zbuf, header): the extension header is already
\* consumed; the body is a length followed by that many bytes.
ZExt_read(buf, pos, h) ==
    LET len == read_zint(buf, pos)
    IN IF ~len.ok THEN [ok |-> FALSE, pos |-> len.pos]
       ELSE IF len.pos + len.val > Len(buf) THEN [ok |-> FALSE, pos |-> len.pos]
       ELSE [ok |-> TRUE, pos |-> len.pos + len.val]

\* struct AckNackExts; a unit struct: it has the one value.
AckNackExts_default == "AckNackExts"

\* AckNackExts::is_empty
AckNackExts_is_empty(exts) == TRUE

\* AckNackExts::write
AckNackExts_write(exts, w, cap) == [ok |-> TRUE, buf |-> w]

\* Faulty variant: the loop goes on when the "more" bit is clear and stops when set.
RECURSIVE AckNackExts_read_Inverted(_, _)
AckNackExts_read_Inverted(buf, pos) ==
    IF pos >= Len(buf) THEN [ok |-> FALSE, pos |-> pos]
    ELSE LET h == buf[pos + 1]
             e == ZExt_read(buf, pos + 1, h)
         IN IF ~e.ok THEN [ok |-> FALSE, pos |-> e.pos]
            ELSE IF has_more(h) THEN [ok |-> TRUE, pos |-> e.pos]
            ELSE AckNackExts_read_Inverted(buf, e.pos)

\* AckNackExts::read: one extension after another until one whose header has
\* no "more" bit; every extension read is dropped (let _e).
RECURSIVE AckNackExts_read(_, _)
AckNackExts_read(buf, pos) ==
    IF pos >= Len(buf) THEN [ok |-> FALSE, pos |-> pos]
    ELSE LET h == buf[pos + 1]
             e == ZExt_read(buf, pos + 1, h)
         IN IF ~e.ok THEN [ok |-> FALSE, pos |-> e.pos]
            ELSE IF ~has_more(h) THEN [ok |-> TRUE, pos |-> e.pos]
            ELSE AckNackExts_read(buf, e.pos)

\* Option<AckNack>
NoneMsg == [some |-> FALSE, exts |-> "-"]
SomeMsg(exts) == [some |-> TRUE, exts |-> exts]

\* AckNack::new
AckNack_new == SomeMsg(AckNackExts_default)

\* AckNack::read(zbuf, header), reading from position pos.
AckNack_read(buf, pos, h) ==
    IF has_flag(h, FLAG_Z)
    THEN LET r == AckNackExts_read(buf, pos)
         IN IF r.ok THEN [msg |-> SomeMsg(AckNackExts_default), pos |-> r.pos]
            ELSE [msg |-> NoneMsg, pos |-> r.pos]
    ELSE [msg |-> SomeMsg(AckNackExts_default), pos |-> pos]

\* WBuf::write(byte): the byte is appended unless the buffer is full.
WBuf_write(w, cap, byte) ==
    IF Len(w) < cap THEN [ok |-> TRUE, buf |-> Append(w, byte)]
    ELSE [ok |-> FALSE, buf |-> w]

\* Faulty variant: the Z flag is set whatever the extensions are.
AckNack_write_AlwaysZ(m, w, cap) ==
    LET h == WBuf_write(w, cap, AckNack_ID + FLAG_Z)
    IN IF ~h.ok THEN [ok |-> FALSE, buf |-> h.buf]
       ELSE [ok |-> TRUE, buf |-> h.buf]

\* AckNack::write(&self, wbuf)
AckNack_write(m, w, cap) ==
    LET has_exts == ~AckNackExts_is_empty(m.exts)
        hdr == IF has_exts THEN AckNack_ID + FLAG_Z ELSE AckNack_ID
        h == WBuf_write(w, cap, hdr)
    IN IF ~h.ok THEN [ok |-> FALSE, buf |-> h.buf]
       ELSE IF has_exts
            THEN LET x == AckNackExts_write(m.exts, h.buf, cap)
                 IN IF ~x.ok THEN [ok |-> FALSE, buf |-> x.buf]
                    ELSE [ok |-> TRUE, buf |-> x.buf]
            ELSE [ok |-> TRUE, buf |-> h.buf]

\* The bytes a read buffer is made of: extension headers without (0, 1) and
\* with (129) the "more" bit, one-byte lengths (0, 1), a body byte, a length's
\* continuation byte (129).
ByteVals == {0, 1, 129}
\* Headers of an AckNack frame: without Z, with Z, with Z and a reserved flag.
Headers == {AckNack_ID, AckNack_ID + FLAG_Z, AckNack_ID + FLAG_Z + 32}

AnInit ==
    /\ an_pc = "start"
    /\ zbuf \in SeqUpTo(ByteVals, MaxBufLen)
    /\ rpos = 0
    /\ header \in Headers
    /\ msg = NoneMsg
    /\ origin = "none"
    /\ wbuf = <<>>
    /\ wcap \in 0..MaxCap
    /\ wres = "none"

AnIdle ==
    /\ an_pc = "start"
    /\ zbuf = <<>>
    /\ rpos = 0
    /\ header = AckNack_ID
    /\ msg = NoneMsg
    /\ origin = "none"
    /\ wbuf = <<>>
    /\ wcap = 0
    /\ wres = "none"

\* A frame arrives: AckNack::read(&mut zbuf, header).
AckNackRead ==
    /\ an_pc = "start"
    /\ LET r == AckNack_read(zbuf, rpos, header)
       IN /\ msg' = r.msg
          /\ rpos' = r.pos
    /\ origin' = "read"
    /\ an_pc' = "read"
    /\ UNCHANGED <<zbuf, header, wbuf, wcap, wres>>
    /\ UNCHANGED <<rkVars, encVars, ccVars, pidVars, plVars>>

\* A keep-alive is built locally: AckNack::new().
AckNackNew ==
    /\ an_pc = "start"
    /\ msg' = AckNack_new
    /\ origin' = "new"
    /\ an_pc' = "new"
    /\ UNCHANGED <<zbuf, rpos, header, wbuf, wcap, wres>>
    /\ UNCHANGED <<rkVars, encVars, ccVars, pidVars, plVars>>

\* The message is written (relayed, or emitted): msg.write(&mut wbuf).  It may
\* be written again (to the same batch) as long as no write failed.
AckNackWrite ==
    /\ an_pc \in {"read", "new", "written"}
    /\ msg.some
    /\ wres # "false"
    /\ LET r == AckNack_write(msg, wbuf, wcap)
       IN /\ wbuf' = r.buf
          /\ wres' = IF r.ok THEN "true" ELSE "false"
    /\ an_pc' = "written"
    /\ UNCHANGED <<zbuf, rpos, header, msg, origin, wcap>>
    /\ UNCHANGED <<rkVars, encVars, ccVars, pidVars, plVars>>

(***************************************************************************)
(* Encoding  (core/mod.rs)                                                 *)
(***************************************************************************)
APP == <<"a", "p", "p", "l", "i", "c", "a", "t", "i", "o", "n", "/">>
TEXT == <<"t", "e", "x", "t", "/">>
IMAGE == <<"i", "m", "a", "g", "e", "/">>

\* encoding::MIMES: Rust index i is MIMES[i + 1] here.
MIMES == <<
    <<>>,
    APP \o <<"o", "c", "t", "e", "t", "-", "s", "t", "r", "e", "a", "m">>,
    APP \o <<"c", "u", "s", "t", "o", "m">>,
    TEXT \o <<"p", "l", "a", "i", "n">>,
    APP \o <<"p", "r", "o", "p", "e", "r", "t", "i", "e", "s">>,
    APP \o <<"j", "s", "o", "n">>,
    APP \o <<"s", "q", "l">>,
    APP \o <<"i", "n", "t", "e", "g", "e", "r">>,
    APP \o <<"f", "l", "o", "a", "t">>,
    APP \o <<"x", "m", "l">>,
    APP \o <<"x", "h", "t", "m", "l", "+", "x", "m", "l">>,
    APP \o <<"x", "-", "w", "w", "w", "-", "f", "o", "r", "m", "-",
             "u", "r", "l", "e", "n", "c", "o", "d", "e", "d">>,
    TEXT \o <<"j", "s", "o", "n">>,
    TEXT \o <<"h", "t", "m", "l">>,
    TEXT \o <<"x", "m", "l">>,
    TEXT \o <<"c", "s", "s">>,
    TEXT \o <<"c", "s", "v">>,
    TEXT \o <<"j", "a", "v", "a", "s", "c", "r", "i", "p", "t">>,
    IMAGE \o <<"j", "p", "e", "g">>,
    IMAGE \o <<"p", "n", "g">>,
    IMAGE \o <<"g", "i", "f">>
>>

\* struct Encoding { prefix, suffix }
Encoding(prefix, suffix) == [prefix |-> prefix, suffix |-> suffix]

\* encoding::EMPTY, the Default
EMPTY == Encoding(0, <<>>)

\* Faulty variant: the last registry entry is taken for unknown.
Encoding_to_string_ShortRegistry(e) ==
    IF e.prefix > 0 /\ e.prefix < Len(MIMES) - 1
    THEN MIMES[e.prefix + 1] \o e.suffix
    ELSE e.suffix

\* impl fmt::Display for Encoding
Encoding_to_string(e) ==
    IF e.prefix > 0 /\ e.prefix < Len(MIMES)
    THEN MIMES[e.prefix + 1] \o e.suffix
    ELSE e.suffix

\* Mime::from_str(s) of http_types, with its error mapped to a ZError: a Mime
\* or a parse error, as that library decides for s.
Mime_from_str(s) == [kind |-> "from_str", arg |-> s]

\* No to_mime call yet.
NoMime == [kind |-> "none", arg |-> <<>>]

\* Encoding::to_mime: MIMES[prefix] is read whenever 0 < prefix <= MIMES.len();
\* indexing the array at MIMES.len() panics.
Encoding_to_mime(e) ==
    IF e.prefix = 0 THEN Mime_from_str(e.suffix)
    ELSE IF e.prefix <= Len(MIMES)
         THEN IF e.prefix >= Len(MIMES)
              THEN [kind |-> "panic", arg |-> <<>>]
              ELSE Mime_from_str(MIMES[e.prefix + 1] \o e.suffix)
    ELSE [kind |-> "unknown_prefix", arg |-> <<>>]

\* The loop of Encoding::from over MIMES.iter().enumerate(), from index i.
RECURSIVE Encoding_from_loop(_, _)
Encoding_from_loop(s, i) ==
    IF i >= Len(MIMES) THEN Encoding(0, s)
    ELSE LET v == MIMES[i + 1]
         IN IF i # 0 /\ starts_with(s, v)
            THEN Encoding(i, SubSeq(s, Len(v) + 1, Len(s)))
            ELSE Encoding_from_loop(s, i + 1)

\* The same loop without the i != 0 test.
RECURSIVE Encoding_from_loop_AnyIndex(_, _)
Encoding_from_loop_AnyIndex(s, i) ==
    IF i >= Len(MIMES) THEN Encoding(0, s)
    ELSE LET v == MIMES[i + 1]
         IN IF starts_with(s, v)
            THEN Encoding(i, SubSeq(s, Len(v) + 1, Len(s)))
            ELSE Encoding_from_loop_AnyIndex(s, i + 1)

\* Faulty variant: index 0, the empty entry, matches every string.
Encoding_from_str_MatchEmpty(s) == Encoding_from_loop_AnyIndex(s, 0)

\* impl From<&'static str> for Encoding
Encoding_from_str(s) == Encoding_from_loop(s, 0)

\* The same loop with the whole of s kept as the suffix.
RECURSIVE Encoding_from_loop_NoSplit(_, _)
Encoding_from_loop_NoSplit(s, i) ==
    IF i >= Len(MIMES) THEN Encoding(0, s)
    ELSE IF i # 0 /\ starts_with(s, MIMES[i + 1])
         THEN Encoding(i, s)
         ELSE Encoding_from_loop_NoSplit(s, i + 1)

\* Faulty variant: the matched entry is not cut off the suffix.
Encoding_from_string_NoSplit(s) == Encoding_from_loop_NoSplit(s, 0)

\* impl From<String> for Encoding
Encoding_from_string(s) == Encoding_from_loop(s, 0)

EncSuffixChars == {";", "x"}
CharsetSuffix ==
    <<";", "c", "h", "a", "r", "s", "e", "t", "=", "u", "t", "f", "-", "8">>
WeirdThing == <<"w", "e", "i", "r", "d", "/", "t", "h", "i", "n", "g">>
EncSuffixes == SeqUpTo(EncSuffixChars, MaxEncSuffixLen) \cup {CharsetSuffix}
\* Encodings built field by field.
EncInputs == [prefix : 0..MaxPrefix, suffix : EncSuffixes]
\* Strings to parse: every registry entry (the empty one too) followed by a
\* suffix, every entry cut short of its last character, every entry behind
\* another character, and a string no entry starts.
StrInputs ==
    {MIMES[k] \o x : k \in 1..Len(MIMES), x \in EncSuffixes}
    \cup {SubSeq(MIMES[k], 1, Len(MIMES[k]) - 1) : k \in 2..Len(MIMES)}
    \cup {<<"x">> \o MIMES[k] : k \in 2..Len(MIMES)}
    \cup {WeirdThing}

EncInit ==
    /\ e_pc = "start"
    /\ ein = <<>>
    /\ enc = EMPTY
    /\ eout = <<>>
    /\ emime = NoMime
    /\ reenc = EMPTY

\* Encoding { prefix, suffix }
EncodingNew ==
    /\ e_pc = "start"
    /\ \E e \in EncInputs : enc' = e
    /\ e_pc' = "new"
    /\ UNCHANGED <<ein, eout, emime, reenc>>
    /\ UNCHANGED <<rkVars, anVars, ccVars, pidVars, plVars>>

\* Encoding::from(s: &'static str)
EncodingFromStr ==
    /\ e_pc = "start"
    /\ \E s \in StrInputs :
          /\ ein' = s
          /\ enc' = Encoding_from_str(s)
    /\ e_pc' = "from_str"
    /\ UNCHANGED <<eout, emime, reenc>>
    /\ UNCHANGED <<rkVars, anVars, ccVars, pidVars, plVars>>

\* Encoding::from(s: String)
EncodingFromString ==
    /\ e_pc = "start"
    /\ \E s \in StrInputs :
          /\ ein' = s
          /\ enc' = Encoding_from_string(s)
    /\ e_pc' = "from_string"
    /\ UNCHANGED <<eout, emime, reenc>>
    /\ UNCHANGED <<rkVars, anVars, ccVars, pidVars, plVars>>

\* enc.to_string()
EncodingDisplay ==
    /\ e_pc \in {"new", "from_str", "from_string"}
    /\ eout' = Encoding_to_string(enc)
    /\ e_pc' = IF e_pc = "new" THEN "shown" ELSE "shown_parsed"
    /\ UNCHANGED <<ein, enc, emime, reenc>>
    /\ UNCHANGED <<rkVars, anVars, ccVars, pidVars, plVars>>

\* enc.to_mime()
EncodingToMime ==
    /\ e_pc \in {"new", "from_str", "from_string"}
    /\ emime' = Encoding_to_mime(enc)
    /\ e_pc' = "mime"
    /\ UNCHANGED <<ein, enc, eout, reenc>>
    /\ UNCHANGED <<rkVars, anVars, ccVars, pidVars, plVars>>

\* Encoding::from(enc.to_string()), for an enc that was itself parsed.
EncodingReparse ==
    /\ e_pc = "shown_parsed"
    /\ reenc' = Encoding_from_string(eout)
    /\ e_pc' = "reparsed"
    /\ UNCHANGED <<ein, enc, eout, emime>>
    /\ UNCHANGED <<rkVars, anVars, ccVars, pidVars, plVars>>

(***************************************************************************)
(* CongestionControl  (core/mod.rs)                                        *)
(***************************************************************************)
BLOCK == <<"b", "l", "o", "c", "k">>
DROP == <<"d", "r", "o", "p">>

\* Result<CongestionControl, ZError>
Ok(v) == [ok |-> TRUE, val |-> v, descr |-> <<>>]
Err(d) == [ok |-> FALSE, val |-> "-", descr |-> d]

\* impl FromStr for CongestionControl
CongestionControl_from_str(s) ==
    IF s = BLOCK THEN Ok("Block")
    ELSE IF s = DROP THEN Ok("Drop")
    ELSE Err(<<"Invalid CongestionControl: ", s,
               ". Valid values are: 'block' | 'drop'">>)

\* The upper-case form of a lower-case letter of "block" and "drop".
Upper(c) ==
    CASE c = "b" -> "B" [] c = "l" -> "L" [] c = "o" -> "O" [] c = "c" -> "C"
      [] c = "k" -> "K" [] c = "d" -> "D" [] c = "r" -> "R" [] c = "p" -> "P"
      [] OTHER -> c

\* Every spelling of the word w, letter by letter in either case.
Spellings(w) ==
    {[i \in 1..Len(w) |-> IF i \in S THEN Upper(w[i]) ELSE w[i]] :
        S \in SUBSET (1..Len(w))}

\* Option values: every spelling of the two words, and strings that are
\* neither (empty, cut short, too long, another word).
CcInputs ==
    Spellings(BLOCK) \cup Spellings(DROP)
    \cup {<<>>, SubSeq(BLOCK, 1, 4), SubSeq(DROP, 1, 3), BLOCK \o <<"s">>,
          DROP \o <<"s">>, <<"b">>, <<"x">>, BLOCK \o DROP}

CcInit ==
    /\ cc_pc = "start"
    /\ cc_s \in CcInputs
    /\ cc_res = Err(<<>>)

CcIdle ==
    /\ cc_pc = "start"
    /\ cc_s = <<>>
    /\ cc_res = Err(<<>>)

\* cc_s.parse::<CongestionControl>()
CongestionControlParse ==
    /\ cc_pc = "start"
    /\ cc_res' = CongestionControl_from_str(cc_s)
    /\ cc_pc' = "parsed"
    /\ UNCHANGED cc_s
    /\ UNCHANGED <<rkVars, anVars, encVars, pidVars, plVars>>

(***************************************************************************)
(* PeerId  (core/mod.rs)                                                   *)
(***************************************************************************)
\* PeerId::MAX_SIZE
MAX_SIZE == 16

\* PeerId::new(size, id): the fields are stored as given.
PeerId_new(size, id) == [size |-> size, id |-> id]

\* impl From<uuid::Uuid> for PeerId
PeerId_from_uuid(bytes) == [size |-> 16, id |-> bytes]

\* PeerId::size
PeerId_size(p) == p.size

\* PeerId::as_slice: &self.id[..self.size], which panics when size is beyond
\* the array.
PeerId_as_slice(p) ==
    IF p.size > Len(p.id) THEN [panic |-> TRUE, bytes |-> <<>>]
    ELSE [panic |-> FALSE, bytes |-> SubSeq(p.id, 1, p.size)]

\* impl PartialEq for PeerId: the sizes first (&& does not go on when they
\* differ), then the two slices.
PeerId_eq(a, b) ==
    IF PeerId_size(a) # PeerId_size(b) THEN "false"
    ELSE LET x == PeerId_as_slice(a)
             y == PeerId_as_slice(b)
         IN IF x.panic \/ y.panic THEN "panic"
            ELSE IF x.bytes = y.bytes THEN "true" ELSE "false"

\* No PeerId built yet.
NoPeerId == [size |-> 0, id |-> <<>>]

\* The id arrays: all zero, or zero but for a 1 at one position.
ProbePositions == {1, 2, 9, MAX_SIZE}
ZeroId == [i \in 1..MAX_SIZE |-> 0]
UnitId(p) == [i \in 1..MAX_SIZE |-> IF i = p THEN 1 ELSE 0]
IdInputs == {ZeroId} \cup {UnitId(p) : p \in ProbePositions}
\* The bytes of a Uuid: one of the arrays above, or sixteen bytes all set.
UuidInputs == IdInputs \cup {[i \in 1..MAX_SIZE |-> 1]}

PidInit ==
    /\ p_pc = "start"
    /\ pidA = NoPeerId
    /\ pidB = NoPeerId
    /\ eqres = "none"

\* PeerId::new(size, id), for the first and then for the second PeerId.
PeerIdNew ==
    /\ p_pc = "start"
    /\ \E size \in 0..MaxSizeArg, id \in IdInputs :
          \/ /\ pidA = NoPeerId
             /\ pidA' = PeerId_new(size, id)
             /\ UNCHANGED pidB
          \/ /\ pidA # NoPeerId
             /\ pidB = NoPeerId
             /\ pidB' = PeerId_new(size, id)
             /\ UNCHANGED pidA
    /\ UNCHANGED <<p_pc, eqres>>
    /\ UNCHANGED <<rkVars, anVars, encVars, ccVars, plVars>>

\* PeerId::from(uuid), for the first and then for the second PeerId.
PeerIdFromUuid ==
    /\ p_pc = "start"
    /\ \E bytes \in UuidInputs :
          \/ /\ pidA = NoPeerId
             /\ pidA' = PeerId_from_uuid(bytes)
             /\ UNCHANGED pidB
          \/ /\ pidA # NoPeerId
             /\ pidB = NoPeerId
             /\ pidB' = PeerId_from_uuid(bytes)
             /\ UNCHANGED pidA
    /\ UNCHANGED <<p_pc, eqres>>
    /\ UNCHANGED <<rkVars, anVars, encVars, ccVars, plVars>>

\* pidA == pidB
PeerIdCompare ==
    /\ p_pc = "start"
    /\ pidA # NoPeerId
    /\ pidB # NoPeerId
    /\ eqres' = PeerId_eq(pidA, pidB)
    /\ p_pc' = "compared"
    /\ UNCHANGED <<pidA, pidB>>
    /\ UNCHANGED <<rkVars, anVars, encVars, ccVars, plVars>>

(***************************************************************************)
(* Pull subscription  (examples/zenoh-net/zn_pull.rs, core/mod.rs)         *)
(*                                                                         *)
(* The subscriber is the program of zn_pull.rs.  The publisher and the     *)
(* session between the two follow the session rules: in Pull mode samples  *)
(* are buffered at the publisher until the subscriber's pull request       *)
(* arrives; pull requests carry an increasing sequence number, so a        *)
(* retransmitted request is served once; a reliable channel keeps order.   *)
(* A sample is named by its rank of emission, 1, 2, ...                    *)
(***************************************************************************)
\* enum SubMode
SubMode_Push == "Push"
SubMode_Pull == "Pull"

\* impl Default for SubMode
SubMode_default == SubMode_Push

\* struct SubInfo
SubInfo(reliability, mode, period) ==
    [reliability |-> reliability, mode |-> mode, period |-> period]

\* No subscriber is declared.
NoSub == [reliability |-> "none", mode |-> "none", period |-> "none"]

\* Faulty variant: every sample is sent at once, whatever the mode.
route_data_AlwaysPush(info, sample, buf, w) ==
    [pbuf |-> buf, wire |-> Append(w, sample)]

\* Where the publisher puts a sample for a subscriber declared with info:
\* held back in Pull mode, sent at once in Push mode.
route_data(info, sample, buf, w) ==
    IF info.mode = SubMode_Pull
    THEN [pbuf |-> Append(buf, sample), wire |-> w]
    ELSE [pbuf |-> buf, wire |-> Append(w, sample)]

PlInit ==
    /\ pl_pc = "start"
    /\ sub_info = NoSub
    /\ published = <<>>
    /\ pbuf = <<>>
    /\ wire = <<>>
    /\ received = <<>>
    /\ pull_sn = 0
    /\ pullq = <<>>
    /\ last_sn = 0
    /\ due = 0

\* session.declare_subscriber(&selector.into(), &sub_info) with
\* SubInfo { reliability: Reliable, mode: SubMode::Pull, period: None }
DeclareSubscriber ==
    /\ pl_pc = "start"
    /\ sub_info' = SubInfo("Reliable", SubMode_Pull, "None")
    /\ pl_pc' = "declared"
    /\ UNCHANGED <<published, pbuf, wire, received, pull_sn, pullq, last_sn,
                   due>>
    /\ UNCHANGED <<rkVars, anVars, encVars, ccVars, pidVars>>

\* The publisher emits its next sample on a key the declared subscription
\* matches.
Publish ==
    /\ pl_pc = "declared"
    /\ Len(published) < MaxSamples
    /\ LET sample == Len(published) + 1
           r == route_data(sub_info, sample, pbuf, wire)
       IN /\ published' = Append(published, sample)
          /\ pbuf' = r.pbuf
          /\ wire' = r.wire
    /\ UNCHANGED <<pl_pc, sub_info, received, pull_sn, pullq, last_sn, due>>
    /\ UNCHANGED <<rkVars, anVars, encVars, ccVars, pidVars>>

\* The stdin arm of the loop with a byte other than 'q': sub.pull()
SubscriberPull ==
    /\ pl_pc = "declared"
    /\ pull_sn < MaxPulls
    /\ Len(pullq) < MaxPullQueue
    /\ pull_sn' = pull_sn + 1
    /\ pullq' = Append(pullq, pull_sn + 1)
    /\ due' = Len(published)
    /\ UNCHANGED <<pl_pc, sub_info, published, pbuf, wire, received, last_sn>>
    /\ UNCHANGED <<rkVars, anVars, encVars, ccVars, pidVars>>

\* The session sends the latest pull request once more.
RetransmitPull ==
    /\ pl_pc = "declared"
    /\ pull_sn > 0
    /\ Len(pullq) < MaxPullQueue
    /\ pullq' = Append(pullq, pull_sn)
    /\ UNCHANGED <<pl_pc, sub_info, published, pbuf, wire, received, pull_sn,
                   last_sn, due>>
    /\ UNCHANGED <<rkVars, anVars, encVars, ccVars, pidVars>>

\* The publisher takes the oldest pull request: a request newer than the
\* last one served releases the buffered samples, in the order they were
\* buffered; an older one or a copy is dropped.
HandlePull ==
    /\ pullq # <<>>
    /\ pullq' = Tail(pullq)
    /\ IF Head(pullq) > last_sn
       THEN /\ wire' = wire \o pbuf
            /\ pbuf' = <<>>
            /\ last_sn' = Head(pullq)
       ELSE UNCHANGED <<wire, pbuf, last_sn>>
    /\ UNCHANGED <<pl_pc, sub_info, published, received, pull_sn, due>>
    /\ UNCHANGED <<rkVars, anVars, encVars, ccVars, pidVars>>

\* The sub.next() arm of the loop: the oldest sample that arrived.
SubscriberNext ==
    /\ pl_pc = "declared"
    /\ wire # <<>>
    /\ received' = Append(received, Head(wire))
    /\ wire' = Tail(wire)
    /\ UNCHANGED <<pl_pc, sub_info, published, pbuf, pull_sn, pullq, last_sn,
                   due>>
    /\ UNCHANGED <<rkVars, anVars, encVars, ccVars, pidVars>>

\* The stdin arm of the loop with 'q': break, undeclare_subscriber, close.
SubscriberQuit ==
    /\ pl_pc = "declared"
    /\ pl_pc' = "closed"
    /\ UNCHANGED <<sub_info, published, pbuf, wire, received, pull_sn, pullq,
                   last_sn, due>>
    /\ UNCHANGED <<rkVars, anVars, encVars, ccVars, pidVars>>

(***************************************************************************)
(* The specifications, one per family.                                     *)
(***************************************************************************)
InitResKey == RkInit /\ AnIdle /\ EncInit /\ CcIdle /\ PidInit /\ PlInit
NextResKey ==
    \/ ConvertRid
    \/ ConvertTupleStr
    \/ ConvertTupleString
    \/ ConvertKeyToTuple
    \/ ConvertTupleBack
SpecResKey == InitResKey /\ [][NextResKey]_vars

InitAckNack == RkIdle /\ AnInit /\ EncInit /\ CcIdle /\ PidInit /\ PlInit
NextAckNack == AckNackRead \/ AckNackNew \/ AckNackWrite
SpecAckNack == InitAckNack /\ [][NextAckNack]_vars

InitEncoding == RkIdle /\ AnIdle /\ EncInit /\ CcIdle /\ PidInit /\ PlInit
NextEncoding ==
    \/ EncodingNew
    \/ EncodingFromStr
    \/ EncodingFromString
    \/ EncodingDisplay
    \/ EncodingToMime
    \/ EncodingReparse
SpecEncoding == InitEncoding /\ [][NextEncoding]_vars

InitCongestion == RkIdle /\ AnIdle /\ EncInit /\ CcInit /\ PidInit /\ PlInit
NextCongestion == CongestionControlParse
SpecCongestion == InitCongestion /\ [][NextCongestion]_vars

InitPeerId == RkIdle /\ AnIdle /\ EncInit /\ CcIdle /\ PidInit /\ PlInit
NextPeerId == PeerIdNew \/ PeerIdFromUuid \/ PeerIdCompare
SpecPeerId == InitPeerId /\ [][NextPeerId]_vars

InitPull == RkIdle /\ AnIdle /\ EncInit /\ CcIdle /\ PidInit /\ PlInit
NextPull ==
    \/ DeclareSubscriber
    \/ Publish
    \/ SubscriberPull
    \/ RetransmitPull
    \/ HandlePull
    \/ SubscriberNext
    \/ SubscriberQuit
SpecPull == InitPull /\ [][NextPull]_vars

\* The publisher's session task serves every request that reached it, and
\* the subscriber's loop takes every sample that arrived.
SpecPullFair ==
    SpecPull /\ WF_vars(HandlePull) /\ WF_vars(SubscriberNext)

(***************************************************************************)
(* Properties.                                                             *)
(***************************************************************************)
Max(S) == CHOOSE m \in S : \A x \in S : x <= m
Min(S) == CHOOSE m \in S : \A x \in S : m <= x

(* C1: a pair (rid, suffix) converted into a ResKey, from a &str or from a
   String suffix, is normalized: an empty suffix gives Id(rid); a non-empty
   suffix with rid = 0 gives Name(suffix); only a non-empty suffix with
   rid != 0 gives IdWithSuffix(rid, suffix).  So (0, "x") gives Name("x") and
   (7, "") gives Id(7). *)
C1_TupleConversionNormalizes ==
    rk_pc \in {"from_tuple_str", "from_tuple_string"} =>
        /\ tuple.suffix = <<>> => reskey = RId(tuple.rid)
        /\ (tuple.suffix # <<>> /\ tuple.rid = 0) => reskey = RName(tuple.suffix)
        /\ (tuple.suffix # <<>> /\ tuple.rid # 0) =>
               reskey = RIdWithSuffix(tuple.rid, tuple.suffix)
        /\ reskey.tag = "RIdWithSuffix" => (tuple.suffix # <<>> /\ tuple.rid # 0)
        /\ tuple = [rid |-> 0, suffix |-> <<"x">>] => reskey = RName(<<"x">>)
        /\ tuple = [rid |-> 7, suffix |-> <<>>] => reskey = RId(7)

\* The pair (0, "x") was converted and gave Name("x").
C1_Witness ==
    /\ rk_pc = "from_tuple_str"
    /\ tuple = [rid |-> 0, suffix |-> <<"x">>]
    /\ reskey = RName(<<"x">>)

(* C2: Id(0) is forbidden: no conversion into a ResKey (from a ResourceId,
   from a (rid, &str) pair, from a (rid, String) pair) produces Id(0). *)
C2_NoConversionGivesIdZero ==
    rk_pc # "start" => reskey # RId(0)

(* C3: unknown extensions are forwarded verbatim: an AckNack frame read with
   the Z flag set and a chain of extensions, then written, comes out as a
   header with Z set followed by the extension bytes that were read, in the
   same order (the write buffer having room for them). *)
C3_ExtensionsForwardedVerbatim ==
    (an_pc = "written" /\ origin = "read" /\ has_flag(header, 128)
        /\ wres = "true" /\ wcap >= 1 + rpos) =>
        LET frame == <<AckNack_ID + 128>> \o SubSeq(zbuf, 1, rpos)
        IN /\ Len(wbuf) >= Len(frame)
           /\ SubSeq(wbuf, Len(wbuf) - Len(frame) + 1, Len(wbuf)) = frame

\* The bytes buf[a+1 .. b] are exactly one extension: its header, the length of
\* its body, and a body of that length.
IsExtension(buf, a, b) ==
    /\ a < b
    /\ b <= Len(buf)
    /\ LET e == ZExt_read(buf, a + 1, buf[a + 1])
       IN e.ok /\ e.pos = b

\* cuts are the end positions of a chain of extensions that starts at the
\* first byte of buf: every extension but the last has its "more" bit set, and
\* the last has it clear.
IsChain(buf, cuts) ==
    /\ cuts # {}
    /\ \A c \in cuts :
          LET prev == Max({0} \cup {d \in cuts : d < c})
          IN /\ IsExtension(buf, prev, c)
             /\ has_flag(buf[prev + 1], 128) <=> (c # Max(cuts))

(* C4: AckNack::read(buf, header): with the Z flag (0x80) clear it returns a
   message and consumes no byte; with Z set it consumes extensions one after
   another and stops exactly after the first extension whose header has the
   "more" bit clear, returning a message and leaving every later byte
   unread; when the input ends before such an extension is complete it
   returns none. *)
C4_ReadStopsAfterLastExtension ==
    origin = "read" =>
        /\ ~has_flag(header, 128) => (msg.some /\ rpos = 0)
        /\ has_flag(header, 128) =>
              LET chains == {cuts \in SUBSET (1..Len(zbuf)) : IsChain(zbuf, cuts)}
              IN IF chains = {} THEN ~msg.some
                 ELSE msg.some /\ \A cuts \in chains : rpos = Max(cuts)

\* A chain of two extensions was read and a later byte was left unread.
C4_Witness ==
    /\ origin = "read"
    /\ has_flag(header, 128)
    /\ msg.some
    /\ has_flag(zbuf[1], 128)
    /\ rpos = 4
    /\ Len(zbuf) = 5

(* C5: AckNack::write(buf) appends the header and reports the outcome: the
   header byte has the AckNack ID in its low 5 bits, the two reserved flags
   clear, and the Z flag set if and only if the message has extensions to
   write; it returns true when the byte was accepted, and false, with
   nothing written, when the buffer cannot accept the header byte. *)
C5_WriteHeaderAndOutcome ==
    [][an_pc' = "written" =>
          /\ Len(wbuf) < wcap =>
                /\ wres' = "true"
                /\ Len(wbuf') = Len(wbuf) + 1
                /\ SubSeq(wbuf', 1, Len(wbuf)) = wbuf
                /\ LET h == wbuf'[Len(wbuf')]
                   IN /\ h % 32 = AckNack_ID
                      /\ ~has_flag(h, 32)
                      /\ ~has_flag(h, 64)
                      /\ has_flag(h, 128) <=> ~AckNackExts_is_empty(msg.exts)
          /\ Len(wbuf) >= wcap =>
                /\ wres' = "false"
                /\ wbuf' = wbuf]_vars

\* A header was written, and then a write found the buffer full.
C5_Witness ==
    /\ an_pc = "written"
    /\ wres = "false"
    /\ Len(wbuf) = wcap
    /\ wcap >= 1

\* The MIME registry, index by index (index i is Registry[i + 1]).
Registry == <<
    \* 0: (empty)
    <<>>,
    \* 1: application/octet-stream
    <<"a", "p", "p", "l", "i", "c", "a", "t", "i", "o", "n", "/", "o",
      "c", "t", "e", "t", "-", "s", "t", "r", "e", "a", "m">>,
    \* 2: application/custom
    <<"a", "p", "p", "l", "i", "c", "a", "t", "i", "o", "n", "/", "c",
      "u", "s", "t", "o", "m">>,
    \* 3: text/plain
    <<"t", "e", "x", "t", "/", "p", "l", "a", "i", "n">>,
    \* 4: application/properties
    <<"a", "p", "p", "l", "i", "c", "a", "t", "i", "o", "n", "/", "p",
      "r", "o", "p", "e", "r", "t", "i", "e", "s">>,
    \* 5: application/json
    <<"a", "p", "p", "l", "i", "c", "a", "t", "i", "o", "n", "/", "j",
      "s", "o", "n">>,
    \* 6: application/sql
    <<"a", "p", "p", "l", "i", "c", "a", "t", "i", "o", "n", "/", "s",
      "q", "l">>,
    \* 7: application/integer
    <<"a", "p", "p", "l", "i", "c", "a", "t", "i", "o", "n", "/", "i",
      "n", "t", "e", "g", "e", "r">>,
    \* 8: application/float
    <<"a", "p", "p", "l", "i", "c", "a", "t", "i", "o", "n", "/", "f",
      "l", "o", "a", "t">>,
    \* 9: application/xml
    <<"a", "p", "p", "l", "i", "c", "a", "t", "i", "o", "n", "/", "x",
      "m", "l">>,
    \* 10: application/xhtml+xml
    <<"a", "p", "p", "l", "i", "c", "a", "t", "i", "o", "n", "/", "x",
      "h", "t", "m", "l", "+", "x", "m", "l">>,
    \* 11: application/x-www-form-urlencoded
    <<"a", "p", "p", "l", "i", "c", "a", "t", "i", "o", "n", "/", "x",
      "-", "w", "w", "w", "-", "f", "o", "r", "m", "-", "u", "r", "l",
      "e", "n", "c", "o", "d", "e", "d">>,
    \* 12: text/json
    <<"t", "e", "x", "t", "/", "j", "s", "o", "n">>,
    \* 13: text/html
    <<"t", "e", "x", "t", "/", "h", "t", "m", "l">>,
    \* 14: text/xml
    <<"t", "e", "x", "t", "/", "x", "m", "l">>,
    \* 15: text/css
    <<"t", "e", "x", "t", "/", "c", "s", "s">>,
    \* 16: text/csv
    <<"t", "e", "x", "t", "/", "c", "s", "v">>,
    \* 17: text/javascript
    <<"t", "e", "x", "t", "/", "j", "a", "v", "a", "s", "c", "r", "i",
      "p", "t">>,
    \* 18: image/jpeg
    <<"i", "m", "a", "g", "e", "/", "j", "p", "e", "g">>,
    \* 19: image/png
    <<"i", "m", "a", "g", "e", "/", "p", "n", "g">>,
    \* 20: image/gif
    <<"i", "m", "a", "g", "e", "/", "g", "i", "f">>
>>

\* "application/json"
ApplicationJson ==
    <<"a", "p", "p", "l", "i", "c", "a", "t", "i", "o", "n", "/", "j", "s", "o", "n">>

(* C6: the string form of an Encoding {prefix, suffix} is registry[prefix]
   followed by suffix when 0 < prefix < 21, and suffix alone for every other
   prefix (0, and 21 and above); the registry is the fixed table of 21
   entries (3 = text/plain, 5 = application/json, 20 = image/gif). *)
C6_StringForm ==
    /\ MIMES = Registry
    /\ Len(Registry) = 21
    /\ e_pc \in {"shown", "shown_parsed"} =>
          IF 0 < enc.prefix /\ enc.prefix < 21
          THEN eout = Registry[enc.prefix + 1] \o enc.suffix
          ELSE eout = enc.suffix

\* Encoding {5, ""} was shown as "application/json".
C6_Witness ==
    /\ e_pc = "shown"
    /\ enc = [prefix |-> 5, suffix |-> <<>>]
    /\ eout = ApplicationJson

(* C7: Encoding::from(s), from a &'static str or from a String: when some
   registry entry of index 1..20 is a prefix of s, the result is that index
   (the lowest such) with the rest of s as the suffix; otherwise it is
   {0, s}.  Index 0, the empty entry, never matches. *)
C7_FromString ==
    e_pc \in {"from_str", "from_string"} =>
        LET matching == {i \in 1..20 : starts_with(ein, Registry[i + 1])}
        IN /\ IF matching = {}
              THEN enc = [prefix |-> 0, suffix |-> ein]
              ELSE LET i == Min(matching)
                   IN enc = [prefix |-> i,
                             suffix |-> SubSeq(ein, Len(Registry[i + 1]) + 1,
                                               Len(ein))]
           /\ ein = ApplicationJson \o CharsetSuffix =>
                 enc = [prefix |-> 5, suffix |-> CharsetSuffix]
           /\ ein = WeirdThing => enc = [prefix |-> 0, suffix |-> WeirdThing]

\* "application/json;charset=utf-8" was parsed to {5, ";charset=utf-8"}.
C7_Witness ==
    /\ e_pc = "from_str"
    /\ ein = ApplicationJson \o CharsetSuffix
    /\ enc = [prefix |-> 5, suffix |-> CharsetSuffix]

\* The lower-case form of a letter.
Lower(c) ==
    CASE c = "B" -> "b" [] c = "L" -> "l" [] c = "O" -> "o" [] c = "C" -> "c"
      [] c = "K" -> "k" [] c = "D" -> "d" [] c = "R" -> "r" [] c = "P" -> "p"
      [] OTHER -> c
LowerCase(s) == [i \in 1..Len(s) |-> Lower(s[i])]

(* C8: a congestion-control option is parsed whatever its case: every
   spelling of "block" gives Block, every spelling of "drop" gives Drop, and
   every other string gives an error with a message, never a value. *)
C8_ParseIgnoresCase ==
    cc_pc = "parsed" =>
        /\ LowerCase(cc_s) = BLOCK => (cc_res.ok /\ cc_res.val = "Block")
        /\ LowerCase(cc_s) = DROP => (cc_res.ok /\ cc_res.val = "Drop")
        /\ LowerCase(cc_s) \notin {BLOCK, DROP} =>
              (~cc_res.ok /\ Len(cc_res.descr) > 0)

(* C9: two PeerIds are equal if and only if they have the same size and the
   same first `size` bytes; the bytes at positions >= size do not count. *)
C9_EqualityByActivePrefix ==
    p_pc = "compared" =>
        /\ eqres \in {"true", "false"}
        /\ eqres = "true" <=>
              /\ pidA.size = pidB.size
              /\ \A i \in 1..pidA.size :
                    i <= Len(pidA.id) => pidA.id[i] = pidB.id[i]

(* C10: every PeerId that can be built, by PeerId::new for any size argument
   or from a Uuid, has size <= PeerId::MAX_SIZE = 16. *)
C10_SizeAtMostMax ==
    /\ pidA # NoPeerId => pidA.size <= 16
    /\ pidB # NoPeerId => pidB.size <= 16

(* C12: Encoding::to_mime never reads the registry out of range: for every
   prefix, 21 (the registry's length) and above included, it returns a Mime
   or an error, the "Unknown encoding prefix" error for every prefix that is
   not an index 0..20; the prefixes it takes for known are the 1..20 that
   the string form takes for known. *)
C12_ToMimeStaysInRange ==
    e_pc = "mime" =>
        /\ emime.kind # "panic"
        /\ enc.prefix \notin 0..20 => emime.kind = "unknown_prefix"
        /\ enc.prefix \in 1..20 =>
              emime = [kind |-> "from_str",
                       arg |-> Registry[enc.prefix + 1] \o enc.suffix]

(* C13: the string form round-trips: for every string s,
   Encoding::from(s).to_string() = s; and for every Encoding e that
   Encoding::from produced, Encoding::from(e.to_string()) = e. *)
C13_StringRoundTrip ==
    /\ e_pc \in {"shown_parsed", "reparsed"} => eout = ein
    /\ e_pc = "reparsed" => reenc = enc

\* "application/json;charset=utf-8" was parsed, shown and parsed back.
C13_Witness ==
    /\ e_pc = "reparsed"
    /\ ein = ApplicationJson \o CharsetSuffix
    /\ eout = ein
    /\ enc = [prefix |-> 5, suffix |-> CharsetSuffix]
    /\ reenc = enc

(* C14: taking a ResKey k to its (rid, suffix) tuple and the tuple back to a
   ResKey gives a value equal to k, for every k, Name(""),
   IdWithSuffix(0, s) and IdWithSuffix(r, "") included. *)
C14_TupleRoundTrip ==
    rk_pc = "round_trip" => reskey = srckey

\* Sample k reached the subscriber, at its rank.
Delivered(k) == Len(received) >= k /\ received[k] = k

\* The samples received so far are the first ones emitted, in that order.
InEmissionOrder ==
    /\ Len(received) <= Len(published)
    /\ \A i \in 1..Len(received) : received[i] = published[i]

(* C11: for a subscriber declared with mode = Pull, no sample is delivered
   before the subscriber calls pull; after a pull, every sample emitted
   before that pull is delivered, while the subscriber stays declared, and
   the samples arrive in the publisher's emission order. *)
C11_PullSubscription ==
    /\ [](sub_info.mode = SubMode_Pull /\ pull_sn = 0 => received = <<>>)
    /\ [](sub_info.mode = SubMode_Pull => InEmissionOrder)
    /\ \A k \in 1..MaxSamples :
          (sub_info.mode = SubMode_Pull /\ due >= k)
              ~> (Delivered(k) \/ pl_pc = "closed")

\* Three samples were emitted, then came the one pull, then all three
\* arrived in order.
C11_Witness ==
    /\ sub_info.mode = SubMode_Pull
    /\ pl_pc = "declared"
    /\ pull_sn = 1
    /\ due = 3
    /\ published = <<1, 2, 3>>
    /\ received = <<1, 2, 3>>

====
